---- MODULE Spec2Model ----
(***************************************************************************)
(* Model of the oplog writer of src/mongo/db/repl/oplog_writer_impl.cpp:   *)
(* the main loop OplogWriterImpl::_run, the dual-sink writer               *)
(* writeOplogBatch, the finalization finalizeOplogBatch, and the           *)
(* collaborators they call (batcher, stores, replication coordinator,      *)
(* storage engine, journal flusher, apply buffer, observer), the latter    *)
(* recorded in a call log in the order the calls are made.                 *)
(***************************************************************************)
EXTENDS Integers, Sequences, FiniteSets, TLC

\* ------------------------------------------------------------------ bounds

\* Most fetches (_run) or direct calls of finalizeOplogBatch (SpecCall) of one behaviour.
MaxIter == 2
\* Most records one fetched batch holds.
MaxBatch == 2
\* Most records the write buffer delivers in one behaviour: more than the apply buffer
\* holds, so that a push can find it without room.
MaxRecs == 3
\* Highest term of a record.
MaxTerm == 2
\* Most write conflicts the storage engine raises during one writeOplogBatch.
MaxConflicts == 1
\* Capacity of the apply buffer, in records: at least MaxBatch, a batch always fits an
\* empty buffer.
ApplyCap == 2

VARIABLES
    pc,                      \* position of the worker in _run / in a direct call
    caller,                  \* "run": the main loop; "direct": another caller of the API
    iter,                    \* number of the current batch (fetch or direct call)
    inShutdown,              \* the process is shutting down
    rsSyncApplyStop,         \* the test-only fail point is set
    changeCollectionsMode,   \* change_stream_serverless_helpers::isChangeCollectionsModeActive()
    oplogCollExists,         \* AutoGetOplog finds the oplog collection
    skipWritesToOplogColl,   \* getOptions().skipWritesToOplogColl
    isEphemeral,             \* getStorageEngine()->isEphemeral()
    flushJournal,            \* local of _run / argument of finalizeOplogBatch
    applyBufferInDrainMode,  \* OplogWriterImpl::_applyBufferInDrainMode
    batch,                   \* the OplogWriterBatch of the last fetch: [ops, exhausted]
    produced,                \* every record fetched from the write buffer so far, in order
    ops,                     \* local 'ops' of _run / argument of writeOplogBatch
    lastOpTimeAndWallTime,   \* local of _run / argument of finalizeOplogBatch
    docs,                    \* local 'docs' of writeOplogBatch
    writeChangeCollection,   \* local of writeOplogBatch
    swLastOpTime,            \* what writeOplogBatch returned: [status, value]
    oplog,                   \* committed documents of the oplog collection
    changeColl,              \* committed documents of the change collection
    conflicts,               \* write conflicts raised so far in the current writeOplogBatch
    writeStatus,             \* the status _writeOplogBatchImpl last passed to fassert
    lastWritten,             \* ReplicationCoordinator: my last written OpTimeAndWallTime
    stats,                   \* OplogWriterStats: [batchSize, batches]
    visibleTs,               \* storage engine: the last timestamp registered as visible
    applyBuffer,             \* the apply buffer: [drainMode, pushed, popped]
    log                      \* the collaborator calls made so far, in order

vars == <<pc, caller, iter, inShutdown, rsSyncApplyStop, changeCollectionsMode,
          oplogCollExists, skipWritesToOplogColl, isEphemeral, flushJournal,
          applyBufferInDrainMode, batch, produced, ops, lastOpTimeAndWallTime, docs,
          writeChangeCollection, swLastOpTime, oplog, changeColl, conflicts,
          writeStatus, lastWritten, visibleTs, stats, applyBuffer, log>>

\* The variables of the environment and of the configuration.
envVars == <<inShutdown, rsSyncApplyStop, changeCollectionsMode, oplogCollExists,
             skipWritesToOplogColl, isEphemeral>>
\* The locals of writeOplogBatch and the two stores.
writeVars == <<docs, writeChangeCollection, swLastOpTime, oplog, changeColl, conflicts,
               writeStatus, stats>>

\* ------------------------------------------------------------- data types

\* OpTime: a logical position, term and timestamp.
OpTime(term, ts) == [term |-> term, ts |-> ts]
\* OpTime(): the null position a node starts from.
NullOpTime == OpTime(0, 0)
NullOpTimeAndWallTime == [opTime |-> NullOpTime, wallTime |-> 0]

\* One oplog entry (a BSONObj): its fields 'ts', 't' and 'wall'.
Entry(ts, t) == [ts |-> ts, t |-> t, wall |-> 100 + ts]

\* OpTime::operator<: term first, then timestamp.
OpTimeLess(a, b) == a.term < b.term \/ (a.term = b.term /\ a.ts < b.ts)
OpTimeLeq(a, b) == a = b \/ OpTimeLess(a, b)

\* OpTime::parseFromOplogEntry
parseFromOplogEntry(op) == OpTime(op.t, op.ts)

\* OpTimeAndWallTime::parseOpTimeAndWallTimeFromOplogEntry
parseOpTimeAndWallTimeFromOplogEntry(op) ==
    [opTime |-> OpTime(op.t, op.ts), wallTime |-> op.wall]

Last(s) == s[Len(s)]
Min(a, b) == IF a < b THEN a ELSE b

\* One recorded collaborator call of batch b.
Call(e, b) == [e |-> e, b |-> b]
\* The recorded fetch of batch b, with what the batcher returned.
Fetch(b, fetched) ==
    [e |-> "getNextBatch", b |-> b, exhausted |-> fetched.exhausted,
     empty |-> fetched.ops = <<>>]

StatusOK == "OK"

\* ------------------------------------------------------- pure operations

\* InsertStatement{op, opTime.getTimestamp(), opTime.getTerm()}: the document and its
\* oplogSlot, the position parsed from it.
InsertStatement(op) == [doc |-> op, oplogSlot |-> parseFromOplogEntry(op)]

\* The loop of writeOplogBatch that creates the insert statements, in the order of ops.
MakeDocs(opsIn) == [i \in 1..Len(opsIn) |-> InsertStatement(opsIn[i])]

\* Faulty variant of WriteOplogBatchResult: returns docs.front().oplogSlot.
WriteOplogBatchResult_Front(d) == [status |-> StatusOK, value |-> d[1].oplogSlot]

\* What writeOplogBatch returns: docs.back().oplogSlot, always with an OK status.
WriteOplogBatchResult(d) == [status |-> StatusOK, value |-> Last(d).oplogSlot]

\* Faulty variant of insertDocsToOplogCollection: the test of the collection is left
\* out, so the documents are inserted and committed although the oplog does not exist.
insertDocsToOplogCollection_NoCheck(coll, exists, d, inserted) ==
    IF inserted # StatusOK
        THEN [status |-> inserted, coll |-> coll]
        ELSE [status |-> StatusOK, coll |-> coll \o d]

\* Faulty variant of insertDocsToOplogCollection: a failed insert is not rolled back,
\* the documents of the attempt stay in the collection.
insertDocsToOplogCollection_NoRollback(coll, exists, d, inserted) ==
    IF ~exists
        THEN [status |-> "NamespaceNotFound", coll |-> coll]
        ELSE [status |-> inserted, coll |-> coll \o d]

\* insertDocsToOplogCollection: one unit of work. 'inserted' is the status of
\* collection_internal::insertDocuments; a write conflict it throws leaves the function
\* as the status "WriteConflict". Without a commit the unit of work rolls back.
insertDocsToOplogCollection(coll, exists, d, inserted) ==
    IF ~exists
        THEN [status |-> "NamespaceNotFound", coll |-> coll]
        ELSE IF inserted # StatusOK
            THEN [status |-> inserted, coll |-> coll]
            ELSE [status |-> StatusOK, coll |-> coll \o d]

\* insertDocsToChangeCollection: one unit of work. 'written' is the status of
\* writer.write(), as above.
insertDocsToChangeCollection(coll, d, written) ==
    IF written # StatusOK
        THEN [status |-> written, coll |-> coll]
        ELSE [status |-> StatusOK, coll |-> coll \o d]

\* storage_helpers::insertBatchAndHandleRetry: a transient write conflict is retried,
\* any other status is returned to the caller.
IsRetryable(status) == status = "WriteConflict"

\* ReplicationCoordinator::setMyLastWrittenOpTimeAndWallTimeForward: a no-op unless the
\* proposed position is strictly greater than the current one.
setMyLastWrittenOpTimeAndWallTimeForward(cur, proposed) ==
    IF OpTimeLess(cur.opTime, proposed.opTime) THEN proposed ELSE cur

\* OplogBuffer::enterDrainMode / exitDrainMode on the apply buffer.
enterDrainMode(buf) == [buf EXCEPT !.drainMode = TRUE]
exitDrainMode(buf) == [buf EXCEPT !.drainMode = FALSE]

\* Records in the apply buffer not yet taken by the applier.
Buffered(buf) == Len(buf.pushed) - buf.popped

\* What the statuses of a sink's insert can be: success, a transient write conflict
\* (while the bound allows), or an interruption once the process is shutting down.
InsertOutcomes ==
    {StatusOK}
      \cup (IF conflicts < MaxConflicts THEN {"WriteConflict"} ELSE {})
      \cup (IF inShutdown THEN {"InterruptedAtShutdown"} ELSE {})

\* ------------------------------------------------------------------ Init

Init ==
    /\ pc = "start"
    /\ caller = "run"
    /\ iter = 0
    /\ inShutdown = FALSE
    /\ rsSyncApplyStop = FALSE
    /\ changeCollectionsMode = FALSE
    /\ oplogCollExists \in BOOLEAN
    /\ skipWritesToOplogColl \in (IF oplogCollExists THEN BOOLEAN ELSE {FALSE})
    /\ isEphemeral \in BOOLEAN
    /\ flushJournal = FALSE
    /\ applyBufferInDrainMode = FALSE
    /\ batch = [ops |-> <<>>, exhausted |-> FALSE]
    /\ produced = <<>>
    /\ ops = <<>>
    /\ lastOpTimeAndWallTime = NullOpTimeAndWallTime
    /\ docs = <<>>
    /\ writeChangeCollection = FALSE
    /\ swLastOpTime = [status |-> StatusOK, value |-> NullOpTime]
    /\ oplog = <<>>
    /\ changeColl = <<>>
    /\ conflicts = 0
    /\ writeStatus = StatusOK
    /\ lastWritten = NullOpTimeAndWallTime
    /\ visibleTs = 0
    /\ stats = [batchSize |-> 0, batches |-> 0]
    /\ applyBuffer = [drainMode |-> FALSE, pushed |-> <<>>, popped |-> 0]
    /\ log = <<>>

\* ------------------------------------------------------- _run, the loop

\* Faulty variant of RunStart: flushJournal is set whatever the storage engine is.
RunStart_AlwaysFlush ==
    /\ pc = "start"
    /\ flushJournal' = TRUE
    /\ pc' = "pause"
    /\ UNCHANGED <<caller, iter, envVars, applyBufferInDrainMode, batch, produced, ops,
                   lastOpTimeAndWallTime, writeVars, lastWritten, visibleTs,
                   applyBuffer, log>>

\* _run before the loop: flushJournal is fixed once, from the storage engine.
RunStart ==
    /\ pc = "start"
    /\ flushJournal' = ~isEphemeral
    /\ pc' = "pause"
    /\ UNCHANGED <<caller, iter, envVars, applyBufferInDrainMode, batch, produced, ops,
                   lastOpTimeAndWallTime, writeVars, lastWritten, visibleTs,
                   applyBuffer, log>>

\* Faulty variant of PauseWhileSet: the loop goes on whether or not the fail point is
\* set.
PauseWhileSet_NoPause ==
    /\ pc = "pause"
    /\ pc' = "fetch"
    /\ UNCHANGED <<caller, iter, envVars, flushJournal, applyBufferInDrainMode, batch,
                   produced, ops, lastOpTimeAndWallTime, writeVars, lastWritten,
                   visibleTs, applyBuffer, log>>

\* Top of the loop: rsSyncApplyStop.pauseWhileSet blocks while the fail point is set;
\* then finishRecoveryIfEligible, which changes nothing the writer reads.
PauseWhileSet ==
    /\ pc = "pause"
    /\ ~rsSyncApplyStop
    /\ pc' = "fetch"
    /\ UNCHANGED <<caller, iter, envVars, flushJournal, applyBufferInDrainMode, batch,
                   produced, ops, lastOpTimeAndWallTime, writeVars, lastWritten,
                   visibleTs, applyBuffer, log>>

\* The write buffer's stream: the n-th record has timestamp n, and the term rises along
\* the stream, so positions strictly increase.
StreamEntry(n) == Entry(n, Min(MaxTerm, 1 + (n \div 2)))

\* The batches the batcher can return next: up to MaxBatch further records of the stream.
NextBatches ==
    LET n == Len(produced)
    IN  {[i \in 1..k |-> StreamEntry(n + i)] : k \in 0..Min(MaxBatch, MaxRecs - n)}

\* _batcher.getNextBatch(opCtx, Seconds(1)): an empty or non-empty batch, with the
\* exhausted flag of the write buffer.
GetNextBatch ==
    /\ pc = "fetch"
    /\ iter < MaxIter
    /\ \E b \in NextBatches, ex \in BOOLEAN :
        /\ batch' = [ops |-> b, exhausted |-> ex]
        /\ produced' = produced \o b
    /\ iter' = iter + 1
    /\ log' = Append(log, Fetch(iter + 1, batch'))
    /\ pc' = "drain"
    /\ UNCHANGED <<caller, envVars, flushJournal, applyBufferInDrainMode, ops,
                   lastOpTimeAndWallTime, writeVars, lastWritten, visibleTs,
                   applyBuffer>>

\* Faulty variant of SignalDrainMode: the apply buffer is signalled but
\* _applyBufferInDrainMode is left as it was.
SignalDrainMode_FlagNotUpdated ==
    /\ pc = "drain"
    /\ IF applyBufferInDrainMode # batch.exhausted
          THEN IF applyBufferInDrainMode
                  THEN /\ applyBuffer' = exitDrainMode(applyBuffer)
                       /\ log' = Append(log, Call("exitDrainMode", iter))
                  ELSE /\ applyBuffer' = enterDrainMode(applyBuffer)
                       /\ log' = Append(log, Call("enterDrainMode", iter))
          ELSE UNCHANGED <<applyBuffer, log>>
    /\ pc' = "empty"
    /\ UNCHANGED <<caller, iter, envVars, flushJournal, applyBufferInDrainMode, batch,
                   produced, ops, lastOpTimeAndWallTime, writeVars, lastWritten, visibleTs>>

\* Faulty variant of SignalDrainMode: the toggle is computed from the batch being
\* empty instead of from its exhausted flag.
SignalDrainMode_FromEmpty ==
    /\ pc = "drain"
    /\ IF applyBufferInDrainMode # (batch.ops = <<>>)
          THEN /\ IF applyBufferInDrainMode
                     THEN /\ applyBuffer' = exitDrainMode(applyBuffer)
                          /\ log' = Append(log, Call("exitDrainMode", iter))
                     ELSE /\ applyBuffer' = enterDrainMode(applyBuffer)
                          /\ log' = Append(log, Call("enterDrainMode", iter))
               /\ applyBufferInDrainMode' = (batch.ops = <<>>)
          ELSE UNCHANGED <<applyBuffer, log, applyBufferInDrainMode>>
    /\ pc' = "empty"
    /\ UNCHANGED <<caller, iter, envVars, flushJournal, batch, produced, ops,
                   lastOpTimeAndWallTime, writeVars, lastWritten, visibleTs>>

\* Faulty variant of SignalDrainMode: an empty batch is tested first, so its exhausted
\* flag is not signalled.
SignalDrainMode_SkipOnEmpty ==
    /\ pc = "drain"
    /\ IF applyBufferInDrainMode # batch.exhausted /\ batch.ops # <<>>
          THEN /\ IF applyBufferInDrainMode
                     THEN /\ applyBuffer' = exitDrainMode(applyBuffer)
                          /\ log' = Append(log, Call("exitDrainMode", iter))
                     ELSE /\ applyBuffer' = enterDrainMode(applyBuffer)
                          /\ log' = Append(log, Call("enterDrainMode", iter))
               /\ applyBufferInDrainMode' = batch.exhausted
          ELSE UNCHANGED <<applyBuffer, log, applyBufferInDrainMode>>
    /\ pc' = "empty"
    /\ UNCHANGED <<caller, iter, envVars, flushJournal, batch, produced, ops,
                   lastOpTimeAndWallTime, writeVars, lastWritten, visibleTs>>

\* Signal the apply buffer to enter or exit drain mode if it is not.
SignalDrainMode ==
    /\ pc = "drain"
    /\ IF applyBufferInDrainMode # batch.exhausted
          THEN /\ IF applyBufferInDrainMode
                     THEN /\ applyBuffer' = exitDrainMode(applyBuffer)
                          /\ log' = Append(log, Call("exitDrainMode", iter))
                     ELSE /\ applyBuffer' = enterDrainMode(applyBuffer)
                          /\ log' = Append(log, Call("enterDrainMode", iter))
               /\ applyBufferInDrainMode' = batch.exhausted
          ELSE UNCHANGED <<applyBuffer, log, applyBufferInDrainMode>>
    /\ pc' = "empty"
    /\ UNCHANGED <<caller, iter, envVars, flushJournal, batch, produced, ops,
                   lastOpTimeAndWallTime, writeVars, lastWritten, visibleTs>>

\* Faulty variant of CheckEmpty: an empty batch ends the loop whether or not the
\* process is shutting down.
CheckEmpty_AlwaysReturn ==
    /\ pc = "empty"
    /\ pc' = IF batch.ops = <<>> THEN "stopped" ELSE "release"
    /\ UNCHANGED <<caller, iter, envVars, flushJournal, applyBufferInDrainMode, batch,
                   produced, ops, lastOpTimeAndWallTime, writeVars, lastWritten,
                   visibleTs, applyBuffer, log>>

\* if (batch.empty()) { if (inShutdown()) return; continue; }
CheckEmpty ==
    /\ pc = "empty"
    /\ pc' = IF batch.ops = <<>>
                THEN (IF inShutdown THEN "stopped" ELSE "pause")
                ELSE "release"
    /\ UNCHANGED <<caller, iter, envVars, flushJournal, applyBufferInDrainMode, batch,
                   produced, ops, lastOpTimeAndWallTime, writeVars, lastWritten,
                   visibleTs, applyBuffer, log>>

\* ops = batch.releaseBatch(); the opTime and wallTime of the last op; the call of
\* writeOplogBatch.
ReleaseBatch ==
    /\ pc = "release"
    /\ ops' = batch.ops
    /\ lastOpTimeAndWallTime' = parseOpTimeAndWallTimeFromOplogEntry(Last(batch.ops))
    /\ pc' = "writeOplogBatch"
    /\ UNCHANGED <<caller, iter, envVars, flushJournal, applyBufferInDrainMode, batch,
                   produced, writeVars, lastWritten, visibleTs, applyBuffer, log>>

\* --------------------------------------------------- writeOplogBatch

\* Faulty variant of WriteOplogBatchBegin: the batch-size metric counts the call, not
\* the records of the batch.
WriteOplogBatchBegin_CountOne ==
    /\ pc = "writeOplogBatch"
    /\ stats' = [stats EXCEPT !.batchSize = @ + 1]
    /\ writeChangeCollection' = changeCollectionsMode
    /\ docs' = MakeDocs(ops)
    /\ pc' = IF ~skipWritesToOplogColl THEN "oplogWrite"
             ELSE IF changeCollectionsMode THEN "changeWrite"
             ELSE "return"
    /\ UNCHANGED <<caller, iter, envVars, flushJournal, applyBufferInDrainMode, batch,
                   produced, ops, lastOpTimeAndWallTime, swLastOpTime, oplog, changeColl,
                   conflicts, writeStatus, lastWritten, visibleTs, applyBuffer, log>>

\* Faulty variant of WriteOplogBatchBegin: the oplog collection is written whatever
\* skipWritesToOplogColl says.
WriteOplogBatchBegin_IgnoreSkip ==
    /\ pc = "writeOplogBatch"
    /\ stats' = [stats EXCEPT !.batchSize = @ + Len(ops)]
    /\ writeChangeCollection' = changeCollectionsMode
    /\ docs' = MakeDocs(ops)
    /\ pc' = "oplogWrite"
    /\ UNCHANGED <<caller, iter, envVars, flushJournal, applyBufferInDrainMode, batch,
                   produced, ops, lastOpTimeAndWallTime, swLastOpTime, oplog, changeColl,
                   conflicts, writeStatus, lastWritten, visibleTs, applyBuffer, log>>

\* Entry of writeOplogBatch: the batch-size metric, the change-collection mode sampled
\* once, and the insert statements built from the oplog entries.
WriteOplogBatchBegin ==
    /\ pc = "writeOplogBatch"
    /\ stats' = [stats EXCEPT !.batchSize = @ + Len(ops)]
    /\ writeChangeCollection' = changeCollectionsMode
    /\ docs' = MakeDocs(ops)
    /\ pc' = IF ~skipWritesToOplogColl THEN "oplogWrite"
             ELSE IF changeCollectionsMode THEN "changeWrite"
             ELSE "return"
    /\ UNCHANGED <<caller, iter, envVars, flushJournal, applyBufferInDrainMode, batch,
                   produced, ops, lastOpTimeAndWallTime, swLastOpTime, oplog, changeColl,
                   conflicts, writeStatus, lastWritten, visibleTs, applyBuffer, log>>

\* _writeOplogBatchImpl on the oplog collection: one attempt of
\* insertBatchAndHandleRetry. A write conflict is retried, success goes on to the
\* observer, and fassert(8352101) ends the process on any other status. The log records
\* the unit of work that ends the retries; one rolled back by a write conflict leaves
\* no trace but the count in 'conflicts'.
WriteOplogColl ==
    /\ pc = "oplogWrite"
    /\ \E inserted \in InsertOutcomes :
        LET r == insertDocsToOplogCollection(oplog, oplogCollExists, docs, inserted)
        IN  /\ oplog' = r.coll
            /\ writeStatus' = r.status
            /\ conflicts' = IF r.status = "WriteConflict" THEN conflicts + 1 ELSE conflicts
            /\ log' = IF r.status = StatusOK
                         THEN log \o <<Call("oplog.begin", iter), Call("oplog.commit", iter)>>
                         ELSE IF IsRetryable(r.status) THEN log
                         ELSE Append(log, Call("oplog.begin", iter))
            /\ pc' = IF r.status = StatusOK THEN "oplogNotify"
                     ELSE IF IsRetryable(r.status) THEN "oplogWrite"
                     ELSE "fatal"
    /\ UNCHANGED <<caller, iter, envVars, flushJournal, applyBufferInDrainMode, batch,
                   produced, ops, lastOpTimeAndWallTime, docs, writeChangeCollection,
                   swLastOpTime, changeColl, stats, lastWritten, visibleTs, applyBuffer>>

\* Faulty variant of NotifyOplogCollection: the change collection is written whatever
\* writeChangeCollection says.
NotifyOplogCollection_AlwaysChange ==
    /\ pc = "oplogNotify"
    /\ log' = Append(log, Call("onWriteOplogCollection", iter))
    /\ pc' = "changeWrite"
    /\ UNCHANGED <<caller, iter, envVars, flushJournal, applyBufferInDrainMode, batch,
                   produced, ops, lastOpTimeAndWallTime, writeVars, lastWritten,
                   visibleTs, applyBuffer>>

\* Faulty variant of NotifyOplogCollection: the change-collections mode is read again
\* at the test instead of the value sampled at the entry.
NotifyOplogCollection_Resample ==
    /\ pc = "oplogNotify"
    /\ log' = Append(log, Call("onWriteOplogCollection", iter))
    /\ pc' = IF changeCollectionsMode THEN "changeWrite" ELSE "return"
    /\ UNCHANGED <<caller, iter, envVars, flushJournal, applyBufferInDrainMode, batch,
                   produced, ops, lastOpTimeAndWallTime, writeVars, lastWritten,
                   visibleTs, applyBuffer>>

\* _observer->onWriteOplogCollection(docs), then the test of writeChangeCollection.
NotifyOplogCollection ==
    /\ pc = "oplogNotify"
    /\ log' = Append(log, Call("onWriteOplogCollection", iter))
    /\ pc' = IF writeChangeCollection THEN "changeWrite" ELSE "return"
    /\ UNCHANGED <<caller, iter, envVars, flushJournal, applyBufferInDrainMode, batch,
                   produced, ops, lastOpTimeAndWallTime, writeVars, lastWritten,
                   visibleTs, applyBuffer>>

\* _writeOplogBatchImpl on the change collection, in its own unit of work.
WriteChangeColl ==
    /\ pc = "changeWrite"
    /\ \E written \in InsertOutcomes :
        LET r == insertDocsToChangeCollection(changeColl, docs, written)
        IN  /\ changeColl' = r.coll
            /\ writeStatus' = r.status
            /\ conflicts' = IF r.status = "WriteConflict" THEN conflicts + 1 ELSE conflicts
            /\ log' = IF r.status = StatusOK
                         THEN log \o <<Call("change.begin", iter), Call("change.commit", iter)>>
                         ELSE IF IsRetryable(r.status) THEN log
                         ELSE Append(log, Call("change.begin", iter))
            /\ pc' = IF r.status = StatusOK THEN "changeNotify"
                     ELSE IF IsRetryable(r.status) THEN "changeWrite"
                     ELSE "fatal"
    /\ UNCHANGED <<caller, iter, envVars, flushJournal, applyBufferInDrainMode, batch,
                   produced, ops, lastOpTimeAndWallTime, docs, writeChangeCollection,
                   swLastOpTime, oplog, stats, lastWritten, visibleTs, applyBuffer>>

\* _observer->onWriteChangeCollection(docs)
NotifyChangeCollection ==
    /\ pc = "changeNotify"
    /\ log' = Append(log, Call("onWriteChangeCollection", iter))
    /\ pc' = "return"
    /\ UNCHANGED <<caller, iter, envVars, flushJournal, applyBufferInDrainMode, batch,
                   produced, ops, lastOpTimeAndWallTime, writeVars, lastWritten,
                   visibleTs, applyBuffer>>

\* return docs.back().oplogSlot; the TimerHolder records the batch as it goes out of
\* scope. The count of conflicts starts again with the next call.
WriteOplogBatchReturn ==
    /\ pc = "return"
    /\ swLastOpTime' = WriteOplogBatchResult(docs)
    /\ stats' = [stats EXCEPT !.batches = @ + 1]
    /\ conflicts' = 0
    /\ pc' = "checkWrite"
    /\ UNCHANGED <<caller, iter, envVars, flushJournal, applyBufferInDrainMode, batch,
                   produced, ops, lastOpTimeAndWallTime, docs, writeChangeCollection,
                   oplog, changeColl, writeStatus, lastWritten, visibleTs,
                   applyBuffer, log>>

\* Faulty variant of CheckWriteResult: a batch that was written goes to the push
\* without finalizeOplogBatch.
CheckWriteResult_SkipFinalize ==
    /\ pc = "checkWrite"
    /\ pc' = IF swLastOpTime.status = "InterruptedAtShutdown" THEN "stopped"
             ELSE IF swLastOpTime.status # StatusOK THEN "fatal"
             ELSE IF swLastOpTime.value # lastOpTimeAndWallTime.opTime THEN "fatal"
             ELSE "push"
    /\ UNCHANGED <<caller, iter, envVars, flushJournal, applyBufferInDrainMode, batch,
                   produced, ops, lastOpTimeAndWallTime, writeVars, lastWritten,
                   visibleTs, applyBuffer, log>>

\* Faulty variant of CheckWriteResult: the invariant on the returned position is left
\* out.
CheckWriteResult_NoInvariant ==
    /\ pc = "checkWrite"
    /\ pc' = IF swLastOpTime.status = "InterruptedAtShutdown" THEN "stopped"
             ELSE IF swLastOpTime.status # StatusOK THEN "fatal"
             ELSE "visibility"
    /\ UNCHANGED <<caller, iter, envVars, flushJournal, applyBufferInDrainMode, batch,
                   produced, ops, lastOpTimeAndWallTime, writeVars, lastWritten,
                   visibleTs, applyBuffer, log>>

\* _run after writeOplogBatch: InterruptedAtShutdown ends the loop, fassertNoTrace ends
\* the process on any other failure, the invariant ends it on a position mismatch.
CheckWriteResult ==
    /\ pc = "checkWrite"
    /\ pc' = IF swLastOpTime.status = "InterruptedAtShutdown" THEN "stopped"
             ELSE IF swLastOpTime.status # StatusOK THEN "fatal"
             ELSE IF swLastOpTime.value # lastOpTimeAndWallTime.opTime THEN "fatal"
             ELSE "visibility"
    /\ UNCHANGED <<caller, iter, envVars, flushJournal, applyBufferInDrainMode, batch,
                   produced, ops, lastOpTimeAndWallTime, writeVars, lastWritten,
                   visibleTs, applyBuffer, log>>

\* ------------------------------------------------- finalizeOplogBatch

\* 1. _storageInterface->oplogDiskLocRegister(opCtx, timestamp, true /* orderedCommit */)
OplogDiskLocRegister ==
    /\ pc = "visibility"
    /\ visibleTs' = lastOpTimeAndWallTime.opTime.ts
    /\ log' = Append(log, Call("oplogDiskLocRegister", iter))
    /\ pc' = "advance"
    /\ UNCHANGED <<caller, iter, envVars, flushJournal, applyBufferInDrainMode, batch,
                   produced, ops, lastOpTimeAndWallTime, writeVars, lastWritten,
                   applyBuffer>>

\* Faulty variant of AdvanceLastWritten: the journal flush is triggered before the
\* last written position is advanced.
AdvanceLastWritten_FlushFirst ==
    /\ pc = "advance"
    /\ lastWritten' = setMyLastWrittenOpTimeAndWallTimeForward(lastWritten,
                                                               lastOpTimeAndWallTime)
    /\ log' = log \o (IF flushJournal THEN <<Call("triggerJournalFlush", iter)>> ELSE <<>>)
                  \o <<Call("setMyLastWrittenForward", iter)>>
    /\ pc' = IF caller = "run" THEN "push" ELSE "finalized"
    /\ UNCHANGED <<caller, iter, envVars, flushJournal, applyBufferInDrainMode, batch,
                   produced, ops, lastOpTimeAndWallTime, writeVars, visibleTs,
                   applyBuffer>>

\* Faulty variant of AdvanceLastWritten: the position is set, not advanced forward.
AdvanceLastWritten_Set ==
    /\ pc = "advance"
    /\ lastWritten' = lastOpTimeAndWallTime
    /\ log' = Append(log, Call("setMyLastWrittenForward", iter))
    /\ pc' = "flush"
    /\ UNCHANGED <<caller, iter, envVars, flushJournal, applyBufferInDrainMode, batch,
                   produced, ops, lastOpTimeAndWallTime, writeVars, visibleTs,
                   applyBuffer>>

\* 2. _replCoord->setMyLastWrittenOpTimeAndWallTimeForward(lastOpTimeAndWallTime)
AdvanceLastWritten ==
    /\ pc = "advance"
    /\ lastWritten' = setMyLastWrittenOpTimeAndWallTimeForward(lastWritten,
                                                               lastOpTimeAndWallTime)
    /\ log' = Append(log, Call("setMyLastWrittenForward", iter))
    /\ pc' = "flush"
    /\ UNCHANGED <<caller, iter, envVars, flushJournal, applyBufferInDrainMode, batch,
                   produced, ops, lastOpTimeAndWallTime, writeVars, visibleTs,
                   applyBuffer>>

\* 3. if (flushJournal) JournalFlusher::get(opCtx)->triggerJournalFlush(); and the return.
TriggerJournalFlush ==
    /\ pc = "flush"
    /\ log' = IF flushJournal THEN Append(log, Call("triggerJournalFlush", iter)) ELSE log
    /\ pc' = IF caller = "run" THEN "push" ELSE "finalized"
    /\ UNCHANGED <<caller, iter, envVars, flushJournal, applyBufferInDrainMode, batch,
                   produced, ops, lastOpTimeAndWallTime, writeVars, lastWritten,
                   visibleTs, applyBuffer>>

\* ------------------------------------------------------------ forwarding

\* Faulty variant of PushToApplyBuffer: the batch is pushed from its end to its
\* beginning.
PushToApplyBuffer_Reversed ==
    /\ pc = "push"
    /\ Buffered(applyBuffer) + Len(ops) <= ApplyCap
    /\ applyBuffer' = [applyBuffer EXCEPT
                          !.pushed = @ \o [i \in 1..Len(ops) |-> ops[Len(ops) + 1 - i]]]
    /\ log' = Append(log, Call("push", iter))
    /\ pc' = "pause"
    /\ UNCHANGED <<caller, iter, envVars, flushJournal, applyBufferInDrainMode, batch,
                   produced, ops, lastOpTimeAndWallTime, writeVars, lastWritten,
                   visibleTs>>

\* _applyBuffer->push(opCtx, ops.begin(), ops.end()): blocks while the buffer has no
\* room for the batch.
PushToApplyBuffer ==
    /\ pc = "push"
    /\ Buffered(applyBuffer) + Len(ops) <= ApplyCap
    /\ applyBuffer' = [applyBuffer EXCEPT !.pushed = @ \o ops]
    /\ log' = Append(log, Call("push", iter))
    /\ pc' = "pause"
    /\ UNCHANGED <<caller, iter, envVars, flushJournal, applyBufferInDrainMode, batch,
                   produced, ops, lastOpTimeAndWallTime, writeVars, lastWritten,
                   visibleTs>>

\* ----------------------------------------------------------- environment

Running == pc \notin {"stopped", "fatal"}

\* The process starts shutting down.
Shutdown ==
    /\ Running
    /\ ~inShutdown
    /\ inShutdown' = TRUE
    /\ UNCHANGED <<pc, caller, iter, rsSyncApplyStop, changeCollectionsMode,
                   oplogCollExists, skipWritesToOplogColl, isEphemeral, flushJournal,
                   applyBufferInDrainMode, batch, produced, ops, lastOpTimeAndWallTime,
                   writeVars, lastWritten, visibleTs, applyBuffer, log>>

\* A test sets or clears the rsSyncApplyStop fail point.
SetFailPoint ==
    /\ Running
    /\ rsSyncApplyStop' = ~rsSyncApplyStop
    /\ UNCHANGED <<pc, caller, iter, inShutdown, changeCollectionsMode,
                   oplogCollExists, skipWritesToOplogColl, isEphemeral, flushJournal,
                   applyBufferInDrainMode, batch, produced, ops, lastOpTimeAndWallTime,
                   writeVars, lastWritten, visibleTs, applyBuffer, log>>

\* The change-collections mode is switched on or off at run time.
SetChangeCollectionsMode ==
    /\ Running
    /\ changeCollectionsMode' = ~changeCollectionsMode
    /\ UNCHANGED <<pc, caller, iter, inShutdown, rsSyncApplyStop,
                   oplogCollExists, skipWritesToOplogColl, isEphemeral, flushJournal,
                   applyBufferInDrainMode, batch, produced, ops, lastOpTimeAndWallTime,
                   writeVars, lastWritten, visibleTs, applyBuffer, log>>

\* The applier takes the next record out of the apply buffer.
ApplierPop ==
    /\ Buffered(applyBuffer) > 0
    /\ applyBuffer' = [applyBuffer EXCEPT !.popped = @ + 1]
    /\ UNCHANGED <<pc, caller, iter, envVars, flushJournal, applyBufferInDrainMode, batch,
                   produced, ops, lastOpTimeAndWallTime, writeVars, lastWritten,
                   visibleTs, log>>

\* ------------------------------------------------- direct callers of the API

\* The positions a direct caller may pass: any term with any timestamp.
FinalizeArgs ==
    {[opTime |-> OpTime(t, ts), wallTime |-> 100 + ts] : t \in 1..MaxTerm, ts \in 1..MaxRecs}

\* A writer whose finalizeOplogBatch is called by a caller other than _run.
InitCall ==
    /\ pc = "idle"
    /\ caller = "direct"
    /\ iter = 0
    /\ inShutdown = FALSE
    /\ rsSyncApplyStop = FALSE
    /\ changeCollectionsMode = FALSE
    /\ oplogCollExists = TRUE
    /\ skipWritesToOplogColl = FALSE
    /\ isEphemeral = FALSE
    /\ flushJournal = FALSE
    /\ applyBufferInDrainMode = FALSE
    /\ batch = [ops |-> <<>>, exhausted |-> FALSE]
    /\ produced = <<>>
    /\ ops = <<>>
    /\ lastOpTimeAndWallTime = NullOpTimeAndWallTime
    /\ docs = <<>>
    /\ writeChangeCollection = FALSE
    /\ swLastOpTime = [status |-> StatusOK, value |-> NullOpTime]
    /\ oplog = <<>>
    /\ changeColl = <<>>
    /\ conflicts = 0
    /\ writeStatus = StatusOK
    /\ lastWritten = NullOpTimeAndWallTime
    /\ visibleTs = 0
    /\ stats = [batchSize |-> 0, batches |-> 0]
    /\ applyBuffer = [drainMode |-> FALSE, pushed |-> <<>>, popped |-> 0]
    /\ log = <<>>

\* The caller is between two calls.
BetweenCalls == pc \in {"idle", "finalized"}

\* finalizeOplogBatch(opCtx, lastOpTimeAndWallTime, flushJournal) called with any
\* position and either value of flushJournal.
CallFinalizeOplogBatch ==
    /\ BetweenCalls
    /\ iter < MaxIter
    /\ lastOpTimeAndWallTime' \in FinalizeArgs
    /\ flushJournal' \in BOOLEAN
    /\ iter' = iter + 1
    /\ pc' = "visibility"
    /\ UNCHANGED <<caller, envVars, applyBufferInDrainMode, batch, produced, ops,
                   writeVars, lastWritten, visibleTs, applyBuffer, log>>

\* ------------------------------------------------------------ test double

\* The positions a test double of the writer may report.
DoublePositions == {OpTime(t, ts) : t \in 1..MaxTerm, ts \in 1..MaxRecs}

\* writeOplogBatch replaced by a test double: it writes nothing and reports success
\* with any position, the one of the last record or another.
TestDoubleWriteOplogBatch ==
    /\ pc = "writeOplogBatch"
    /\ \E p \in DoublePositions : swLastOpTime' = [status |-> StatusOK, value |-> p]
    /\ pc' = "checkWrite"
    /\ UNCHANGED <<caller, iter, envVars, flushJournal, applyBufferInDrainMode, batch,
                   produced, ops, lastOpTimeAndWallTime, docs, writeChangeCollection,
                   oplog, changeColl, conflicts, writeStatus, stats, lastWritten,
                   visibleTs, applyBuffer, log>>

\* ---------------------------------------------------------- specification

Next ==
    \/ RunStart
    \/ PauseWhileSet
    \/ GetNextBatch
    \/ SignalDrainMode
    \/ CheckEmpty
    \/ ReleaseBatch
    \/ WriteOplogBatchBegin
    \/ WriteOplogColl
    \/ NotifyOplogCollection
    \/ WriteChangeColl
    \/ NotifyChangeCollection
    \/ WriteOplogBatchReturn
    \/ CheckWriteResult
    \/ OplogDiskLocRegister
    \/ AdvanceLastWritten
    \/ TriggerJournalFlush
    \/ PushToApplyBuffer
    \/ Shutdown
    \/ SetChangeCollectionsMode
    \/ ApplierPop

\* The writer in production: the test-only fail point is never set.
Spec == Init /\ [][Next]_vars

\* The writer under a test that sets and clears the rsSyncApplyStop fail point.
NextPause == Next \/ SetFailPoint

SpecPause == Init /\ [][NextPause]_vars

\* finalizeOplogBatch called directly, one call after the other, with any arguments.
NextCall ==
    \/ CallFinalizeOplogBatch
    \/ OplogDiskLocRegister
    \/ AdvanceLastWritten
    \/ TriggerJournalFlush

SpecCall == InitCall /\ [][NextCall]_vars

\* The main loop around a test double of writeOplogBatch.
NextDouble ==
    \/ RunStart
    \/ PauseWhileSet
    \/ GetNextBatch
    \/ SignalDrainMode
    \/ CheckEmpty
    \/ ReleaseBatch
    \/ TestDoubleWriteOplogBatch
    \/ CheckWriteResult
    \/ OplogDiskLocRegister
    \/ AdvanceLastWritten
    \/ TriggerJournalFlush
    \/ PushToApplyBuffer
    \/ Shutdown
    \/ ApplierPop

SpecDouble == Init /\ [][NextDouble]_vars

\* A step of the worker that runs _run, as opposed to a step of its environment.
Worker ==
    \/ RunStart
    \/ PauseWhileSet
    \/ GetNextBatch
    \/ SignalDrainMode
    \/ CheckEmpty
    \/ ReleaseBatch
    \/ WriteOplogBatchBegin
    \/ WriteOplogColl
    \/ NotifyOplogCollection
    \/ WriteChangeColl
    \/ NotifyChangeCollection
    \/ WriteOplogBatchReturn
    \/ CheckWriteResult
    \/ OplogDiskLocRegister
    \/ AdvanceLastWritten
    \/ TriggerJournalFlush
    \/ PushToApplyBuffer

\* getNextBatch once MaxIter batches have been fetched: the write buffer has nothing
\* more, every further fetch times out with an empty batch and the same exhausted flag,
\* and is not recorded.
GetNextBatchIdle ==
    /\ pc = "fetch"
    /\ iter = MaxIter
    /\ batch' = [ops |-> <<>>, exhausted |-> batch.exhausted]
    /\ pc' = "drain"
    /\ UNCHANGED <<caller, iter, envVars, flushJournal, applyBufferInDrainMode, produced,
                   ops, lastOpTimeAndWallTime, writeVars, lastWritten, visibleTs,
                   applyBuffer, log>>

NextLive == Next \/ GetNextBatchIdle

\* The main loop on its dedicated thread, which runs whenever it is not blocked, with a
\* write buffer that ends up empty and an applier that keeps taking records out of the
\* apply buffer.
SpecLive ==
    /\ Init
    /\ [][NextLive]_vars
    /\ WF_vars(Worker \/ GetNextBatchIdle)
    /\ WF_vars(ApplierPop)

\* ------------------------------------------------------- reading the log

\* The calls of batch b among the calls named in es, in the order they were made.
CallsOf(b, es) == SelectSeq(log, LAMBDA c : c.b = b /\ c.e \in es)

\* s is a prefix of t.
IsPrefix(s, t) == Len(s) <= Len(t) /\ \A i \in 1..Len(s) : s[i] = t[i]

\* Some call e of batch b is in the log.
Called(e, b) == \E i \in DOMAIN log : log[i].e = e /\ log[i].b = b

\* Some call e of batch b is in the log before index i.
CalledBefore(e, b, i) == \E j \in 1..(i - 1) : log[j].e = e /\ log[j].b = b

FinalizeCalls == {"oplogDiskLocRegister", "setMyLastWrittenForward", "triggerJournalFlush"}
DrainCalls == {"enterDrainMode", "exitDrainMode"}
OplogWriteCalls == {"oplog.begin", "oplog.commit", "onWriteOplogCollection"}
ChangeWriteCalls == {"change.begin", "change.commit", "onWriteChangeCollection"}

\* The position and wall time of the last record of the batch fetched last.
BatchLast == parseOpTimeAndWallTimeFromOplogEntry(Last(batch.ops))

\* ---------------------------------------------------------------- claims

\* C1: for every batch the main loop processes, finalization calls the visibility
\* registration (oplogDiskLocRegister), then the forward advance of the last written
\* position to the batch's last position and wall time, then the journal flush trigger:
\* the finalization calls and the push of a batch in the log are always a prefix of that
\* sequence followed by the push, so there is no trigger before the advance and no
\* advance before the registration of the same batch; the trigger is the one call left
\* out when flushJournal is false.
C1_FinalizeOrder ==
    /\ \A b \in 1..iter :
        IsPrefix(CallsOf(b, FinalizeCalls \cup {"push"}),
                 <<Call("oplogDiskLocRegister", b), Call("setMyLastWrittenForward", b)>>
                   \o (IF flushJournal THEN <<Call("triggerJournalFlush", b)>> ELSE <<>>)
                   \o <<Call("push", b)>>)
    /\ pc \in {"advance", "flush", "push"} =>
          /\ visibleTs = BatchLast.opTime.ts
          /\ Called("oplogDiskLocRegister", iter)
    /\ pc \in {"flush", "push"} =>
          /\ lastWritten = BatchLast
          /\ Called("setMyLastWrittenForward", iter)
    /\ pc = "push" => (flushJournal <=> Called("triggerJournalFlush", iter))

\* C1 witness: the second batch of a run on a durable medium has been registered,
\* advanced and flushed, and waits to be pushed.
C1_Witness ==
    /\ pc = "push"
    /\ iter = 2
    /\ CallsOf(1, FinalizeCalls) # <<>>
    /\ Called("triggerJournalFlush", 2)

\* C2: a successful writeOplogBatch returns exactly the position (term and timestamp) of
\* the last record of the batch, whether or not the primary write is skipped and whether
\* or not the change collection is written.
C2_CommitEquality ==
    pc = "checkWrite" =>
        /\ ops # <<>>
        /\ swLastOpTime.status = StatusOK
        /\ swLastOpTime.value.term = Last(ops).t
        /\ swLastOpTime.value.ts = Last(ops).ts

\* C2 witness: writeOplogBatch has returned for a batch of two records, with the primary
\* write skipped and the change collection written.
C2_Witness ==
    /\ pc = "checkWrite"
    /\ Len(ops) = 2
    /\ skipWritesToOplogColl
    /\ writeChangeCollection

\* C3 (as amended): once the drain-mode signalling of an iteration has run, the first
\* iteration included, _applyBufferInDrainMode equals the exhausted flag of the batch
\* fetched last, and so does the drain mode of the apply buffer.
C3_DrainFlagIsExhausted ==
    (iter >= 1 /\ pc # "drain") =>
        /\ applyBufferInDrainMode = batch.exhausted
        /\ applyBuffer.drainMode = batch.exhausted

\* C3 as stated: after every iteration the flag equals the negation of the exhausted
\* flag of the batch fetched last.
C3_Original ==
    (iter >= 1 /\ pc \in {"pause", "stopped"}) =>
        applyBufferInDrainMode = ~batch.exhausted

\* C3 witness: the very first iteration fetched an exhausted batch and has ended.
C3_Witness ==
    /\ iter = 1
    /\ pc = "pause"
    /\ batch.exhausted
    /\ applyBufferInDrainMode

\* The apply buffer is in drain mode before call i of the log.
DrainModeBefore(i) ==
    LET S == {j \in 1..(i - 1) : log[j].e \in DrainCalls}
    IN  S # {} /\ log[CHOOSE j \in S : \A k \in S : k <= j].e = "enterDrainMode"

\* C4: on every fetch, empty or not, the drain mode is toggled from the exhausted flag
\* alone: enterDrainMode is called exactly when the fetch is exhausted and the apply
\* buffer is not in drain mode, exitDrainMode exactly when the fetch is not exhausted
\* and the apply buffer is in drain mode, and neither otherwise; the calls are made
\* right after the fetch and nowhere else.
C4_DrainToggle ==
    /\ \A i \in DOMAIN log :
        (log[i].e = "getNextBatch" /\ (i < Len(log) \/ pc # "drain")) =>
            LET made == IF i < Len(log) /\ log[i + 1].e \in DrainCalls
                           THEN log[i + 1].e ELSE "none"
                due == IF log[i].exhausted /\ ~DrainModeBefore(i) THEN "enterDrainMode"
                       ELSE IF ~log[i].exhausted /\ DrainModeBefore(i) THEN "exitDrainMode"
                       ELSE "none"
            IN  made = due
    /\ \A i \in DOMAIN log :
        log[i].e \in DrainCalls =>
            /\ i > 1
            /\ log[i - 1].e = "getNextBatch"
            /\ log[i - 1].b = log[i].b

\* C4 witness: an exhausted fetch of a non-empty batch made the writer enter drain
\* mode, and the next fetch, not exhausted and empty, made it exit.
C4_Witness ==
    /\ iter = 2
    /\ pc = "empty"
    /\ Called("enterDrainMode", 1)
    /\ Called("exitDrainMode", 2)
    /\ ~log[1].empty
    /\ batch.ops = <<>>

\* C5: for every batch, every call of the primary write (its unit of work and its
\* observer notification) precedes every call of the change-collection write, so the two
\* are never interleaved; a change-collection write of a batch whose primary write is
\* not skipped begins only after the primary write committed; and a batch sampled with
\* the change-collections mode inactive has no change-collection write and no
\* onWriteChangeCollection.
C5_DualSinkSequencing ==
    /\ \A j \in DOMAIN log :
        log[j].e \in ChangeWriteCalls =>
            \A i \in (j + 1)..Len(log) :
                ~(log[i].e \in OplogWriteCalls /\ log[i].b = log[j].b)
    /\ \A j \in DOMAIN log :
        (log[j].e = "change.begin" /\ ~skipWritesToOplogColl) =>
            /\ CalledBefore("oplog.commit", log[j].b, j)
            /\ CalledBefore("onWriteOplogCollection", log[j].b, j)
    /\ ~writeChangeCollection =>
          \A j \in DOMAIN log : ~(log[j].e \in ChangeWriteCalls /\ log[j].b = iter)

\* C5 witness: with the mode active, the primary write of a batch committed, and the
\* change-collection write of the same batch began after it and committed too.
C5_Witness ==
    /\ pc = "changeNotify"
    /\ writeChangeCollection
    /\ Called("oplog.commit", iter)
    /\ Called("change.commit", iter)

\* C6: the last written position never decreases, whatever positions finalizeOplogBatch
\* is called with: an advance with a position strictly greater than the current one
\* takes it, an advance with any other position (an older one, or the same one a second
\* time) leaves the position and wall time unchanged.
C6_Monotonic ==
    [][/\ OpTimeLeq(lastWritten.opTime, lastWritten'.opTime)
       /\ (pc = "advance" /\ pc' # pc) =>
             IF OpTimeLess(lastWritten.opTime, lastOpTimeAndWallTime.opTime)
                THEN lastWritten' = lastOpTimeAndWallTime
                ELSE lastWritten' = lastWritten]_vars

\* C6 witness: a second call has advanced with a position older than the current one,
\* and the current one was kept.
C6_Witness ==
    /\ pc = "flush"
    /\ iter = 2
    /\ OpTimeLess(lastOpTimeAndWallTime.opTime, lastWritten.opTime)

\* No call of finalization and no push of batch b is in the log.
NotFinalizedNorPushed(b) == CallsOf(b, FinalizeCalls \cup {"push"}) = <<>>

\* C7 as stated: when the write of a batch fails because the process is shutting down,
\* the loop ends gracefully, not by a fatal halt, and the batch is neither finalized nor
\* pushed.
C7_ShutdownWriteStopsGracefully ==
    writeStatus = "InterruptedAtShutdown" =>
        /\ pc # "fatal"
        /\ NotFinalizedNorPushed(iter)

\* C8: when the oplog collection does not exist, the primary write of the first batch
\* fails with NamespaceNotFound and nothing is inserted or committed; the process halts
\* there: the start of that unit of work is the last call ever made, so no observer
\* notification, no change-collection write, no finalization and no push follows, for
\* that batch or a later one.
C8_MissingStoreHalts ==
    /\ writeStatus = "NamespaceNotFound" => ~oplogCollExists
    /\ (~oplogCollExists /\ \E b \in 1..iter : Called("oplog.begin", b)) =>
          /\ writeStatus = "NamespaceNotFound"
          /\ pc = "fatal"
          /\ oplog = <<>>
          /\ changeColl = <<>>
          /\ Last(log) = Call("oplog.begin", iter)
          /\ \A i \in DOMAIN log :
                log[i].e \notin (FinalizeCalls \cup ChangeWriteCalls
                                   \cup {"oplog.commit", "onWriteOplogCollection", "push"})
          /\ applyBuffer.pushed = <<>>
          /\ lastWritten = NullOpTimeAndWallTime
          /\ visibleTs = 0

\* C8 witness: the write of a batch of two records has failed on the missing oplog.
C8_Witness ==
    /\ pc = "fatal"
    /\ writeStatus = "NamespaceNotFound"
    /\ Len(ops) = 2

\* Every call of batch b in the log is the fetch or a drain-mode signal.
OnlyFetched(b) == \A i \in DOMAIN log : log[i].b = b => log[i].e \in DrainCalls \cup {"getNextBatch"}

\* C9: an empty batch is never written, finalized or pushed; at the empty-batch test
\* the loop ends (stopped) if the process is shutting down and goes back to the top of
\* the loop otherwise, without touching the stores, the positions or the apply buffer;
\* and once stopped the writer does nothing more.
C9_EmptyBatch ==
    /\ [](\A i \in DOMAIN log :
            (log[i].e = "getNextBatch" /\ log[i].empty) => OnlyFetched(log[i].b))
    /\ [](pc = "stopped" => (inShutdown /\ batch.ops = <<>> /\ OnlyFetched(iter)))
    /\ [][(pc = "empty" /\ batch.ops = <<>> /\ pc' # pc) =>
             /\ pc' = (IF inShutdown THEN "stopped" ELSE "pause")
             /\ UNCHANGED <<log, oplog, changeColl, lastWritten, visibleTs, applyBuffer,
                            stats>>]_vars
    /\ [][pc = "stopped" =>
             UNCHANGED <<pc, log, oplog, changeColl, lastWritten, visibleTs, stats,
                         produced>>
             /\ applyBuffer'.pushed = applyBuffer.pushed]_vars

\* C9 witness: an empty batch was fetched while the process was not shutting down, the
\* loop went on to a second fetch, empty again, and ended on it during shutdown.
C9_Witness ==
    /\ pc = "stopped"
    /\ iter = 2
    /\ log[1].empty
    /\ batch.exhausted

\* C10: the records pushed to the apply buffer are at every moment a prefix of the
\* records fetched from the write buffer, and the batches are pushed in fetch order, each
\* at most once.
C10_PushedIsPrefix ==
    /\ IsPrefix(applyBuffer.pushed, produced)
    /\ LET pushes == SelectSeq(log, LAMBDA c : c.e = "push")
       IN  \A i, j \in DOMAIN pushes : i < j => pushes[i].b < pushes[j].b
    /\ pc = "pause" => applyBuffer.pushed = produced

\* C10 witness: a batch of two records fetched, written and pushed in order.
C10_Witness ==
    /\ Len(applyBuffer.pushed) = 2
    /\ Called("push", 1)
    /\ applyBuffer.pushed[1] # applyBuffer.pushed[2]

\* The fetches so far that returned a non-empty batch.
NonEmptyFetches == SelectSeq(log, LAMBDA c : c.e = "getNextBatch" /\ ~c.empty)

\* C11: a call of writeOplogBatch on n records adds n to the record counter of the
\* stats (at its entry) and 1 to the batch counter (at its return) and the counters
\* change nowhere else, so they never decrease; whenever a call has returned, the record
\* counter is the number of records passed to the writer so far (and of records in the
\* oplog, unless the primary write is skipped) and the batch counter is the number of
\* batches.
C11_StatsCount ==
    /\ [](pc = "checkWrite" =>
            /\ stats.batchSize = Len(produced)
            /\ stats.batches = Len(NonEmptyFetches)
            /\ ~skipWritesToOplogColl => Len(oplog) = stats.batchSize)
    /\ [][/\ stats'.batchSize >= stats.batchSize
           /\ stats'.batches >= stats.batches
           /\ stats' = IF pc = "writeOplogBatch" /\ pc' # pc
                           THEN [stats EXCEPT !.batchSize = @ + Len(ops)]
                        ELSE IF pc = "return" /\ pc' # pc
                           THEN [stats EXCEPT !.batches = @ + 1]
                        ELSE stats]_vars

\* C11 witness: two batches written one after the other, two records in all.
C11_Witness ==
    /\ pc = "checkWrite"
    /\ stats.batches = 2
    /\ stats.batchSize = 2

\* The collection ends with the documents d, in their order, and holds none of them
\* anywhere else.
HoldsBatchOnce(coll, d) ==
    /\ Len(coll) >= Len(d)
    /\ SubSeq(coll, Len(coll) - Len(d) + 1, Len(coll)) = d
    /\ \A i \in 1..(Len(coll) - Len(d)) : \A j \in DOMAIN d : coll[i] # d[j]

\* The collection holds none of the documents d.
HoldsNone(coll, d) == \A i \in DOMAIN coll : \A j \in DOMAIN d : coll[i] # d[j]

\* C12: a write conflict raised by a sink's insert is retried inside writeOplogBatch: it
\* is never the status that halts the process and never the status returned, the call
\* still returns OK with the position of the last record, the attempt that failed leaves
\* the sink as it was, and once the write of a sink is over the sink ends with the
\* documents of the batch, each once and in batch order.
C12_ConflictsAbsorbed ==
    /\ [](/\ pc = "fatal" => ~IsRetryable(writeStatus)
          /\ ~IsRetryable(swLastOpTime.status)
          /\ pc = "oplogWrite" => HoldsNone(oplog, docs)
          /\ pc = "changeWrite" => HoldsNone(changeColl, docs)
          /\ (pc \in {"oplogNotify", "changeWrite", "changeNotify", "return"}
                /\ ~skipWritesToOplogColl) => HoldsBatchOnce(oplog, docs)
          /\ (pc = "changeNotify" \/ (pc = "return" /\ writeChangeCollection)) =>
                HoldsBatchOnce(changeColl, docs))
    /\ [][/\ IsRetryable(writeStatus') =>
                (pc' = pc /\ oplog' = oplog /\ changeColl' = changeColl /\ log' = log)
          /\ (pc = "return" /\ pc' # pc) =>
                /\ pc' = "checkWrite"
                /\ swLastOpTime' = [status |-> StatusOK,
                                    value |-> parseFromOplogEntry(Last(ops))]]_vars

\* C12 witness: the write of the second batch met a write conflict, was retried, and
\* writeOplogBatch is about to return; the oplog holds both batches.
C12_Witness ==
    /\ pc = "return"
    /\ conflicts >= 1
    /\ iter = 2
    /\ Len(oplog) = 2

\* The position the writer reported differs from the one parsed from the last record.
Mismatch == swLastOpTime.value # lastOpTimeAndWallTime.opTime

\* C13: when the position writeOplogBatch reports differs from the position parsed from
\* the last record of the batch, the check after the call halts the process: the batch
\* is neither finalized nor pushed, no later batch is fetched, and nothing happens after
\* the halt; only a batch whose reported position matches goes on to finalization.
C13_MismatchHalts ==
    /\ [](/\ pc = "fatal" =>
                /\ Mismatch
                /\ NotFinalizedNorPushed(iter)
                /\ Last(log).b = iter
                /\ Last(log).e \in DrainCalls \cup {"getNextBatch"}
          /\ pc \in {"visibility", "advance", "flush", "push"} => ~Mismatch)
    /\ [][/\ (pc = "checkWrite" /\ Mismatch /\ pc' # pc) => pc' = "fatal"
          /\ pc = "fatal" =>
                /\ UNCHANGED <<pc, iter, log, produced, lastWritten, visibleTs>>
                /\ applyBuffer'.pushed = applyBuffer.pushed]_vars

\* C13 witness: the first batch was reported with its last position and pushed, the
\* second was reported with another position and the process halted.
C13_Witness ==
    /\ pc = "fatal"
    /\ iter = 2
    /\ Called("push", 1)
    /\ Mismatch

\* C14: the journal flusher is triggered for a batch exactly when the storage engine is
\* not ephemeral: on an ephemeral engine the log never has a triggerJournalFlush, and
\* every finalized batch has exactly one visibility registration and one advance of the
\* last written position; on a durable engine every finalized batch has, after those
\* two, exactly one triggerJournalFlush. A batch is finalized once finalizeOplogBatch
\* has returned for it: it waits for its push or has been pushed.
C14_FlushIffDurable ==
    LET calls == SelectSeq(log, LAMBDA c : c.e \in FinalizeCalls \cup {"push"})
        finalized(b) == (b = iter /\ pc = "push")
                          \/ \E i \in DOMAIN calls : calls[i] = Call("push", b)
    IN  /\ isEphemeral => \A i \in DOMAIN calls : calls[i].e # "triggerJournalFlush"
        /\ \A b \in 1..iter :
            finalized(b) =>
                SelectSeq(calls, LAMBDA c : c.b = b /\ c.e # "push") =
                    <<Call("oplogDiskLocRegister", b), Call("setMyLastWrittenForward", b)>>
                      \o (IF isEphemeral THEN <<>> ELSE <<Call("triggerJournalFlush", b)>>)

\* C14 witness: on an ephemeral engine two batches were finalized and pushed.
C14_Witness ==
    /\ isEphemeral
    /\ Called("push", 1)
    /\ Called("push", 2)
    /\ lastWritten.opTime.ts = 2

\* C15: with skipWritesToOplogColl the oplog collection stays empty and the log has no
\* unit of work on it and no onWriteOplogCollection, while a call that has returned
\* reports the position of the last record and, if it sampled the change-collections
\* mode active, has written the batch to the change collection in one committed unit
\* with one onWriteChangeCollection; without the option a call that has returned has
\* appended the whole batch to the oplog collection in one committed unit of work,
\* followed by exactly one onWriteOplogCollection.
C15_SkipPrimaryWrite ==
    /\ skipWritesToOplogColl =>
          /\ oplog = <<>>
          /\ \A i \in DOMAIN log : log[i].e \notin OplogWriteCalls
          /\ pc = "checkWrite" =>
                /\ swLastOpTime = [status |-> StatusOK,
                                   value |-> parseFromOplogEntry(Last(ops))]
                /\ writeChangeCollection =>
                      /\ HoldsBatchOnce(changeColl, MakeDocs(ops))
                      /\ CallsOf(iter, ChangeWriteCalls) =
                            <<Call("change.begin", iter), Call("change.commit", iter),
                              Call("onWriteChangeCollection", iter)>>
    /\ (~skipWritesToOplogColl /\ pc = "checkWrite") =>
          /\ HoldsBatchOnce(oplog, MakeDocs(ops))
          /\ Len(oplog) = Len(produced)
          /\ CallsOf(iter, OplogWriteCalls) =
                <<Call("oplog.begin", iter), Call("oplog.commit", iter),
                  Call("onWriteOplogCollection", iter)>>

\* C15 witness: with the option set, the second of two batches has been written to the
\* change collection only, and writeOplogBatch has returned.
C15_Witness ==
    /\ skipWritesToOplogColl
    /\ pc = "checkWrite"
    /\ iter = 2
    /\ writeChangeCollection
    /\ changeColl # <<>>
    /\ stats.batches = 2

\* The positions of the worker between the fetch of a batch and its push.
InFlight ==
    {"drain", "empty", "release", "writeOplogBatch", "oplogWrite", "oplogNotify",
     "changeWrite", "changeNotify", "return", "checkWrite", "visibility", "advance",
     "flush"}

\* C16: while the fail point is set and the worker is at the top of the loop, the worker
\* stays there and nothing is fetched, written, finalized or pushed; the fail point is
\* read nowhere else, so with the fail point set a worker past the top of the loop can
\* always take its next step, up to the push, which waits for room in the apply buffer
\* only.
C16_PauseAtLoopTop ==
    /\ [](rsSyncApplyStop =>
            /\ pc = "pause" => ~ENABLED Worker
            /\ pc \in InFlight => ENABLED Worker
            /\ (pc = "push" /\ Buffered(applyBuffer) + Len(ops) <= ApplyCap) =>
                  ENABLED PushToApplyBuffer)
    /\ [][(pc = "pause" /\ rsSyncApplyStop) =>
             /\ UNCHANGED <<pc, iter, log, produced, oplog, changeColl, lastWritten,
                            visibleTs, stats>>
             /\ applyBuffer'.pushed = applyBuffer.pushed]_vars

\* C16 witness: the fail point was set after the worker had left the top of the loop
\* for the first batch; the batch has been written and finalized all the same and is
\* about to be pushed.
C16_Witness ==
    /\ pc = "push"
    /\ rsSyncApplyStop
    /\ iter = 1
    /\ Called("oplog.commit", 1)
    /\ Called("setMyLastWrittenForward", 1)

\* C17 as stated: once shutdown has been requested, and given that the write buffer
\* ends up returning empty batches and that the applier keeps making room in the apply
\* buffer, the loop eventually returns (stopped). The oplog collection is taken to
\* exist, a missing one being a halt of its own.
C17_ShutdownReachesStopped == (inShutdown /\ oplogCollExists) ~> (pc = "stopped")

\* C17, what the loop does guarantee under the same provisos: after a shutdown request
\* it returns or the process halts on a failed write.
C17_StopsOrHalts == inShutdown ~> (pc \in {"stopped", "fatal"})

\* C17, the batch in flight and the blocked push: the shutdown request is read at the
\* empty-batch test only, so with shutdown requested a worker between the fetch and the
\* push can always take its next step, and a worker at the push can take none while the
\* apply buffer has no room.
C17_ShutdownReadAtEmptyTest ==
    /\ (inShutdown /\ pc \in InFlight) => ENABLED Worker
    /\ (pc = "push" /\ Buffered(applyBuffer) + Len(ops) > ApplyCap) => ~ENABLED Worker

\* C18: every record pushed to the apply buffer has a position at or below the last
\* written position, its batch having been written and finalized before the push; and
\* unless the primary write is skipped, the last written position is never above the
\* position of the last document committed to the oplog collection.
C18_PushedAtMostLastWritten ==
    /\ \A i \in DOMAIN applyBuffer.pushed :
          OpTimeLeq(parseFromOplogEntry(applyBuffer.pushed[i]), lastWritten.opTime)
    /\ pc = "push" =>
          /\ lastWritten.opTime = parseFromOplogEntry(Last(ops))
          /\ visibleTs = Last(ops).ts
          /\ ~skipWritesToOplogColl => HoldsBatchOnce(oplog, MakeDocs(ops))
    /\ ~skipWritesToOplogColl =>
          \/ lastWritten = NullOpTimeAndWallTime
          \/ /\ oplog # <<>>
             /\ OpTimeLeq(lastWritten.opTime, Last(oplog).oplogSlot)

\* C18 witness: two batches, three records, written to the oplog, finalized and pushed.
C18_Witness ==
    /\ pc = "pause"
    /\ iter = 2
    /\ ~skipWritesToOplogColl
    /\ Len(applyBuffer.pushed) = 3
    /\ Len(oplog) = 3
    /\ lastWritten.opTime.ts = 3

\* The calls of enterDrainMode and exitDrainMode so far, in order.
DrainSignals == SelectSeq(log, LAMBDA c : c.e \in DrainCalls)

\* C19: the calls of enterDrainMode and exitDrainMode on the apply buffer alternate, no
\* two calls in a row are the same, over any sequence of fetches; and the signal of
\* an iteration is made before its empty-batch test, so at that test and once the loop
\* has returned the drain mode of the apply buffer is the exhausted flag of the last
\* fetch.
C19_DrainCallsAlternate ==
    /\ \A i \in 1..(Len(DrainSignals) - 1) : DrainSignals[i].e # DrainSignals[i + 1].e
    /\ pc \in {"empty", "stopped"} =>
          /\ applyBuffer.drainMode = batch.exhausted
          /\ applyBufferInDrainMode = batch.exhausted

\* C19 witness: drain mode was entered on the first fetch and left on the second, an
\* empty batch on which the loop returned.
C19_Witness ==
    /\ pc = "stopped"
    /\ iter = 2
    /\ ~batch.exhausted
    /\ DrainSignals = <<Call("enterDrainMode", 1), Call("exitDrainMode", 2)>>

\* C20: whether a batch goes to the change collection is decided once per call of
\* writeOplogBatch: writeChangeCollection changes only at the entry of the call, where
\* it takes the change-collections mode of that moment, before the primary write; a
\* toggle of the mode later in the call changes nothing: a call that has returned has
\* written the batch to the change collection, once, if and only if the mode was
\* sampled active, whatever the mode is by then.
C20_ChangeModeSampledOnce ==
    /\ [](/\ pc \in {"changeWrite", "changeNotify"} => writeChangeCollection
          /\ pc = "checkWrite" =>
                IF writeChangeCollection
                   THEN /\ HoldsBatchOnce(changeColl, docs)
                        /\ Called("change.commit", iter)
                        /\ Called("onWriteChangeCollection", iter)
                   ELSE /\ HoldsNone(changeColl, docs)
                        /\ CallsOf(iter, ChangeWriteCalls) = <<>>)
    /\ [][/\ (pc = "writeOplogBatch" /\ pc' # pc) =>
                writeChangeCollection' = changeCollectionsMode
          /\ ~(pc = "writeOplogBatch" /\ pc' # pc) =>
                writeChangeCollection' = writeChangeCollection]_vars

\* C20 witness: the mode was active at the entry of the call and was switched off
\* before the call returned; the batch is in the change collection all the same.
C20_Witness ==
    /\ pc = "checkWrite"
    /\ writeChangeCollection
    /\ ~changeCollectionsMode
    /\ ~skipWritesToOplogColl
    /\ HoldsBatchOnce(changeColl, docs)

====
